---- MODULE Spec2Model ----
(***************************************************************************)
(* navmcp: the fetch_url and web_search tools (server/tools/fetch.py,      *)
(* server/tools/search.py) running as asyncio tasks on one event loop      *)
(* against the one Selenium driver owned by the BrowserManager that        *)
(* server/app.py creates in its lifespan.                                  *)
(*                                                                         *)
(* A tool call is a task.  A task runs without interruption from one       *)
(* suspension point to the next (the variable `running` names the task     *)
(* that holds the event loop); the suspension points are the awaits of     *)
(* the code that suspend: asyncio.sleep, the tenacity back-off sleep, and  *)
(* get_driver (its body is not among the sources; it may suspend).         *)
(*                                                                         *)
(* The result parsers of search.py (_parse_<engine>_results and            *)
(* _extract_<engine>_result) are functions of the page they are given:     *)
(* SpecParse follows one parser call on each page of a bounded set, a page *)
(* being what the container selectors match in it and a result element     *)
(* what the selectors of the field chains match in it.                     *)
(*                                                                         *)
(* SpecLive is Spec on an event loop that runs every task that is ready;   *)
(* SpecConvert follows calls of the convert_to_markdown tool               *)
(* (server/tools/convert.py), which uses no browser.                       *)
(***************************************************************************)
EXTENDS Integers, Sequences, FiniteSets, TLC

VARIABLES
    browser_manager,  \* app.py global: "None", "started" or "stopped"
    page,             \* the document the driver currently shows
    running,          \* the task holding the event loop, or "idle"
    faults,           \* number of failures the environment has injected
    op,               \* the tool calls: one record per task
    lifespan,         \* where app.py's lifespan is: "created", "serving", "exited"
    parser            \* one call of a _parse_<engine>_results function

vars == <<browser_manager, page, running, faults, op, lifespan, parser>>

\* ---------------------------------------------------------------- bounds
\* polls of document.readyState that fit in max_wait (30 s / 100 ms in the code)
MaxPolls == 2
\* failures the environment injects in one run
MaxFaults == 3

\* the concurrent tool calls
Ops == {"op1", "op2"}

\* ---------------------------------------------------------------- inputs
Urls == {"http://a/", " http://a/ ", "HTTP://B/", "http://127.0.0.1/admin"}
Getters == {"None", "app_lambda", "async_getter"}
Queries == {"a b", "   "}
Engines == {"google_scholar", "pubmed", "ieee", "arxiv", "medrxiv", "biorxiv",
            "ARXIV", "duckduckgo"}

\* str.strip() on the inputs of the model
strip(s) ==
    CASE s = " http://a/ " -> "http://a/"
      [] s = "   " -> ""
      [] OTHER -> s

\* str.lower() on the engine identifiers of the model
lower(s) == IF s = "ARXIV" THEN "arxiv" ELSE s

\* urllib.parse.quote_plus on the queries of the model
quote_plus(q) == IF q = "a b" THEN "a+b" ELSE q

\* server.utils.net.validate_url_security(url, allow_private=False)
validate_url_security(u) == u \notin {"http://127.0.0.1/admin", ""}

\* server.utils.net.normalize_url
normalize_url(u) == IF u = "HTTP://B/" THEN "http://b/" ELSE u

\* ------------------------------------------------------------ the driver
BlankPage == "about:blank"
TitleOf(p) == "title of " \o p
HtmlOf(p) == "<html>" \o p

\* what a failing call raises: the exception class and whether str(e).lower()
\* holds one of the keywords 'net::', 'dns', 'connection', 'timeout'
ExcTypes == {"TimeoutException", "WebDriverException", "Exception"}
Failure(at, type, kw) == [at |-> at, type |-> type, kw |-> kw]
DriverFailures(at) == {Failure(at, t, k) : t \in ExcTypes, k \in BOOLEAN}

\* fetch.py line 213: any(keyword in error_msg for keyword in [...])
IsTransient(f) == f.kw

\* ------------------------------------------------------------- the tasks
NoError == "null"

IdleOp == [kind |-> "none", pc |-> "idle", url |-> "", getter |-> "",
           query |-> "", engine |-> "", target |-> "",
           attempt |-> 0, polls |-> 0, pollErrs |-> 0, navs |-> 0, gdCalls |-> 0,
           getterCalls |-> 0, cmds |-> 0, fails |-> <<>>, delays |-> <<>>, readFail |-> {},
           timedOut |-> FALSE, waited |-> "pending", parsed |-> FALSE,
           final_url |-> "", title |-> "", html |-> "",
           status |-> "", error |-> NoError,
           content_type |-> "", content |-> "", markdown |-> "",
           original_format |-> "", conversion_success |-> FALSE,
           convertCalls |-> 0]

\* no _parse_<engine>_results call is being followed
NoParse == [pc |-> "idle", engine |-> "", html |-> <<>>, num_results |-> 0,
            max_results |-> 0, selector |-> "", result_elements |-> <<>>,
            i |-> 0, results |-> <<>>, status |-> ""]

Init ==
    /\ browser_manager = "None"
    /\ page = BlankPage
    /\ running = "idle"
    /\ faults = 0
    /\ op = [o \in Ops |-> IdleOp]
    /\ lifespan = "created"
    /\ parser = NoParse

CanFail == faults < MaxFaults
Fault == faults' = faults + 1

\* -------------------------------------------------------------- lifespan
\* app.py lifespan: browser_manager = BrowserManager(); await start()
LifespanStartup ==
    /\ lifespan = "created"
    /\ browser_manager = "None"
    /\ running = "idle"
    /\ browser_manager' = "started"
    /\ lifespan' = "serving"
    /\ UNCHANGED <<page, running, faults, op, parser>>

\* app.py lifespan, the server left the context normally: the generator
\* resumes after the yield: if browser_manager: await browser_manager.stop()
LifespanShutdown ==
    /\ lifespan = "serving"
    /\ running = "idle"
    /\ browser_manager' = IF browser_manager # "None" THEN "stopped"
                          ELSE browser_manager
    /\ lifespan' = "exited"
    /\ UNCHANGED <<page, running, faults, op, parser>>

\* app.py lifespan, the server left the context by an exception or a
\* cancellation: it is thrown into the generator at the yield of line 68,
\* which no try/finally encloses, so lines 70-73 are not executed
LifespanAborted ==
    /\ lifespan = "serving"
    /\ running = "idle"
    /\ lifespan' = "exited"
    /\ UNCHANGED <<browser_manager, page, running, faults, op, parser>>

\* BrowserManager.get_driver: the driver of a started manager
get_driver_ok == browser_manager = "started"
NotAvailable == Failure("get_driver", "Exception", FALSE)

\* ------------------------------------------------------------ fetch_url
\* mutant: the error output is built from the fields read so far
ErrorOutput_FieldsAsRead(r, final_url, error) ==
    [r EXCEPT !.pc = "done", !.status = "error", !.error = error]

\* mutant: the error output carries no error message
ErrorOutput_NoMessage(r, final_url, error) ==
    [r EXCEPT !.pc = "done", !.status = "error", !.error = NoError,
              !.final_url = final_url, !.title = "", !.html = ""]

\* FetchUrlOutput(final_url=..., title="", html="", status="error", error=...)
ErrorOutput(r, final_url, error) ==
    [r EXCEPT !.pc = "done", !.status = "error", !.error = error,
              !.final_url = final_url, !.title = "", !.html = ""]

\* mutant: the browser manager is fetched before the URL is validated
FetchUrlEntry_GetterFirst(u, getter, mgr) ==
    IF getter = "None"
    THEN [next |-> "raise", error |-> "ImportError", getterCalls |-> 0]
    ELSE IF getter = "app_lambda"
    THEN [next |-> "raise", error |-> "TypeError", getterCalls |-> 1]
    ELSE IF mgr = "None"
    THEN [next |-> "return", error |-> "Browser manager not available",
          getterCalls |-> 1]
    ELSE IF ~validate_url_security(u)
    THEN [next |-> "return", error |-> "URL validation failed", getterCalls |-> 1]
    ELSE [next |-> "attempt", error |-> NoError, getterCalls |-> 1]

\* fetch_url lines 58-92: what happens before _fetch_page_with_retry is awaited
FetchUrlEntry(u, getter, mgr) ==
    IF ~validate_url_security(u)
    THEN [next |-> "return", error |-> "URL validation failed", getterCalls |-> 0]
    ELSE IF getter = "None"
    THEN \* from server.app import get_browser_manager: app.py has no such name
         [next |-> "raise", error |-> "ImportError", getterCalls |-> 0]
    ELSE IF getter = "app_lambda"
    THEN \* await (lambda: browser_manager)(): the value is not awaitable
         [next |-> "raise", error |-> "TypeError", getterCalls |-> 1]
    ELSE IF mgr = "None"
    THEN [next |-> "return", error |-> "Browser manager not available",
          getterCalls |-> 1]
    ELSE [next |-> "attempt", error |-> NoError, getterCalls |-> 1]

\* mutant: except WebDriverException instead of except Exception
FetchUrlCatches_WebDriverOnly(type) ==
    type \in {"TimeoutException", "WebDriverException"}

\* fetch_url line 105: except Exception
FetchUrlCatches(type) ==
    type \in ExcTypes \cup {"TypeError", "ImportError"}

\* fetch_url lines 105-117, or the exception leaves the tool
Unexpected(r, type) ==
    IF FetchUrlCatches(type)
    THEN ErrorOutput(r, r.url, "Unexpected error")
    ELSE [r EXCEPT !.pc = "raised"]

\* a client calls the fetch tool
CallFetch(o, u, g) ==
    /\ op[o].pc = "idle"
    /\ running = "idle"
    /\ op' = [op EXCEPT ![o] = [@ EXCEPT !.kind = "fetch", !.pc = "fetch_url",
                                         !.url = strip(u), !.getter = g]]
    /\ running' = o
    /\ UNCHANGED <<browser_manager, page, faults>>
    /\ UNCHANGED <<lifespan, parser>>

FetchUrl(o) ==
    /\ op[o].pc = "fetch_url"
    /\ running = o
    /\ LET r == op[o]
           e == FetchUrlEntry(r.url, r.getter, browser_manager)
           r1 == [r EXCEPT !.getterCalls = e.getterCalls]
       IN op' = [op EXCEPT ![o] =
                   CASE e.next = "return" -> ErrorOutput(r1, r.url, e.error)
                     [] e.next = "raise" -> Unexpected(r1, e.error)
                     [] OTHER -> [r1 EXCEPT !.pc = "get_driver", !.attempt = 1,
                                            !.target = normalize_url(r.url)]]
    /\ running' = "idle"
    /\ UNCHANGED <<browser_manager, page, faults>>
    /\ UNCHANGED <<lifespan, parser>>

\* mutant: stop_after_attempt(4)
StopAfterAttempt_OneMore == 3 + 1

\* mutant: stop_after_attempt(2)
StopAfterAttempt_OneFewer == 3 - 1

\* the @retry decorator of _fetch_page_with_retry: stop_after_attempt(3)
StopAfterAttempt == 3

\* _fetch_page_with_retry lines 198-223 and the decorator: an attempt raised f
AttemptFailed(r, f) ==
    LET r1 == [r EXCEPT !.fails = Append(@, f)]
    IN  IF f.type = "TimeoutException"
        THEN ErrorOutput(r1, r.target, "Page load timeout")
        ELSE IF f.type = "WebDriverException" /\ ~IsTransient(f)
        THEN ErrorOutput(r1, r.target, "Browser error")
        ELSE IF r.attempt < StopAfterAttempt
        THEN [r1 EXCEPT !.pc = "backoff"]
        ELSE Unexpected(r1, f.type)

\* line 155: driver = await browser_manager.get_driver()
GetDriver(o) ==
    /\ op[o].pc = "get_driver"
    /\ running = "idle"
    /\ LET r == [op[o] EXCEPT !.gdCalls = @ + 1, !.timedOut = FALSE,
                              !.waited = "pending", !.readFail = {}]
       IN IF get_driver_ok
          THEN /\ op' = [op EXCEPT ![o] = [r EXCEPT !.pc = "navigate"]]
               /\ running' = o
          ELSE /\ op' = [op EXCEPT ![o] = AttemptFailed(r, NotAvailable)]
               /\ running' = "idle"
    /\ UNCHANGED <<browser_manager, page, faults>>
    /\ UNCHANGED <<lifespan, parser>>

\* mutant: driver.get is awaited in an executor, the event loop is free
\* while the command runs
Navigate_Awaited(o) ==
    /\ op[o].pc = "navigate"
    /\ running = o
    /\ page' = op[o].target
    /\ op' = [op EXCEPT ![o] = [@ EXCEPT !.navs = @ + 1, !.cmds = @ + 1,
                                         !.pc = "poll", !.polls = 0,
                                         !.pollErrs = 0]]
    /\ running' = "idle"
    /\ UNCHANGED <<browser_manager, faults, lifespan, parser>>

\* line 159: driver.get(url)
Navigate(o) ==
    /\ op[o].pc = "navigate"
    /\ running = o
    /\ LET r == [op[o] EXCEPT !.navs = @ + 1, !.cmds = @ + 1]
       IN \/ /\ page' = r.target
             /\ op' = [op EXCEPT ![o] = [r EXCEPT !.pc = "poll", !.polls = 0,
                                                  !.pollErrs = 0]]
             /\ UNCHANGED <<running, faults>>
          \/ /\ CanFail /\ Fault
             /\ \E f \in DriverFailures("navigate") :
                    op' = [op EXCEPT ![o] = AttemptFailed(r, f)]
             /\ running' = "idle"
             /\ UNCHANGED page
    /\ UNCHANGED browser_manager
    /\ UNCHANGED <<lifespan, parser>>

\* _wait_for_page_load line 243: a bare return, the caller receives None
ReturnWhenComplete == "None"

\* _wait_for_page_load line 249: the function ends after logger.warning, the
\* caller receives None
ReturnAfterBudget == "None"

\* mutant: no try/except around execute_script, its exception ends the wait
Poll_ErrorEndsWait(o) ==
    /\ op[o].pc = "poll"
    /\ running = o
    /\ LET r == op[o]
       IN IF r.polls < MaxPolls
          THEN LET r1 == [r EXCEPT !.cmds = @ + 1]
               IN \/ \* ready_state == "complete": await asyncio.sleep(0.5)
                     /\ op' = [op EXCEPT ![o] = [r1 EXCEPT !.pc = "settle"]]
                     /\ UNCHANGED faults
                  \/ \* another state: await asyncio.sleep(0.1)
                     /\ op' = [op EXCEPT ![o] = [r1 EXCEPT !.pc = "poll_sleep",
                                                           !.polls = @ + 1]]
                     /\ UNCHANGED faults
                  \/ \* execute_script raised: the exception leaves the function
                     /\ CanFail /\ Fault
                     /\ \E f \in DriverFailures("execute_script") :
                            op' = [op EXCEPT ![o] = AttemptFailed(r1, f)]
          ELSE \* time.time() >= end_time: warning, return None
               /\ op' = [op EXCEPT ![o] = [r EXCEPT !.pc = "wait_timeout",
                                                    !.timedOut = TRUE,
                                                    !.waited = ReturnAfterBudget]]
               /\ UNCHANGED faults
    /\ running' = IF op[o].polls < MaxPolls THEN "idle" ELSE o
    /\ UNCHANGED <<browser_manager, page>>
    /\ UNCHANGED <<lifespan, parser>>

\* mutant: the sleeps of the loop do not use up the budget (while True)
Poll_NoDeadline(o) ==
    /\ op[o].pc = "poll"
    /\ running = o
    /\ LET r == op[o]
       IN IF r.polls < MaxPolls
          THEN LET r1 == [r EXCEPT !.cmds = @ + 1]
               IN \/ \* ready_state == "complete": await asyncio.sleep(0.5)
                     /\ op' = [op EXCEPT ![o] = [r1 EXCEPT !.pc = "settle"]]
                     /\ UNCHANGED faults
                  \/ \* another state: await asyncio.sleep(0.1)
                     /\ op' = [op EXCEPT ![o] = [r EXCEPT !.pc = "poll_sleep"]]
                     /\ UNCHANGED faults
                  \/ \* execute_script raised: logged, await asyncio.sleep(0.1)
                     /\ CanFail /\ Fault
                     /\ op' = [op EXCEPT ![o] = [r EXCEPT !.pc = "poll_sleep",
                                                          !.pollErrs = 1]]
          ELSE \* time.time() >= end_time: warning, return None
               /\ op' = [op EXCEPT ![o] = [r EXCEPT !.pc = "wait_timeout",
                                                    !.timedOut = TRUE,
                                                    !.waited = ReturnAfterBudget]]
               /\ UNCHANGED faults
    /\ running' = IF op[o].polls < MaxPolls THEN "idle" ELSE o
    /\ UNCHANGED <<browser_manager, page>>
    /\ UNCHANGED <<lifespan, parser>>

\* _wait_for_page_load lines 236-249: one turn of the polling loop
Poll(o) ==
    /\ op[o].pc = "poll"
    /\ running = o
    /\ LET r == op[o]
       IN IF r.polls < MaxPolls
          THEN LET r1 == [r EXCEPT !.cmds = @ + 1]
               IN \/ \* ready_state == "complete": await asyncio.sleep(0.5)
                     /\ op' = [op EXCEPT ![o] = [r1 EXCEPT !.pc = "settle"]]
                     /\ UNCHANGED faults
                  \/ \* another state: await asyncio.sleep(0.1)
                     /\ op' = [op EXCEPT ![o] = [r1 EXCEPT !.pc = "poll_sleep",
                                                           !.polls = @ + 1]]
                     /\ UNCHANGED faults
                  \/ \* execute_script raised: logged, await asyncio.sleep(0.1)
                     /\ CanFail /\ Fault
                     /\ op' = [op EXCEPT ![o] = [r1 EXCEPT !.pc = "poll_sleep",
                                                           !.polls = @ + 1,
                                                           !.pollErrs = @ + 1]]
          ELSE \* time.time() >= end_time: warning, return None
               /\ op' = [op EXCEPT ![o] = [r EXCEPT !.pc = "wait_timeout",
                                                    !.timedOut = TRUE,
                                                    !.waited = ReturnAfterBudget]]
               /\ UNCHANGED faults
    /\ running' = IF op[o].polls < MaxPolls THEN "idle" ELSE o
    /\ UNCHANGED <<browser_manager, page>>
    /\ UNCHANGED <<lifespan, parser>>

\* asyncio.sleep(0.1) is over
WakePoll(o) ==
    /\ op[o].pc = "poll_sleep"
    /\ running = "idle"
    /\ op' = [op EXCEPT ![o] = [@ EXCEPT !.pc = "poll"]]
    /\ running' = o
    /\ UNCHANGED <<browser_manager, page, faults>>
    /\ UNCHANGED <<lifespan, parser>>

\* asyncio.sleep(0.5) is over: _wait_for_page_load returns
WakeSettle(o) ==
    /\ op[o].pc = "settle"
    /\ running = "idle"
    /\ op' = [op EXCEPT ![o] = [@ EXCEPT !.pc = "read_url",
                                         !.waited = ReturnWhenComplete]]
    /\ running' = o
    /\ UNCHANGED <<browser_manager, page, faults>>
    /\ UNCHANGED <<lifespan, parser>>

\* _wait_for_page_load returned after its budget: line 162 goes on to line 165
AfterWaitTimeout(r) == [r EXCEPT !.pc = "read_url"]

WaitTimedOut(o) ==
    /\ op[o].pc = "wait_timeout"
    /\ running = o
    /\ op' = [op EXCEPT ![o] = AfterWaitTimeout(@)]
    /\ UNCHANGED <<browser_manager, page, running, faults>>
    /\ UNCHANGED <<lifespan, parser>>

\* line 165: final_url = driver.current_url (inside the outer try only)
CurrentUrlFailed(r, f) == AttemptFailed([r EXCEPT !.readFail = @ \cup {f.at}], f)

ReadUrl(o) ==
    /\ op[o].pc = "read_url"
    /\ running = o
    /\ LET r == [op[o] EXCEPT !.cmds = @ + 1]
       IN \/ /\ op' = [op EXCEPT ![o] = [r EXCEPT !.pc = "read_title",
                                                  !.final_url = page]]
             /\ UNCHANGED <<running, faults>>
          \/ /\ CanFail /\ Fault
             /\ \E f \in DriverFailures("current_url") :
                    op' = [op EXCEPT ![o] = CurrentUrlFailed(r, f)]
             /\ running' = "idle"
    /\ UNCHANGED <<browser_manager, page>>
    /\ UNCHANGED <<lifespan, parser>>

\* lines 168-173: title = driver.title or "", in its own try
ReadTitle(o) ==
    /\ op[o].pc = "read_title"
    /\ running = o
    /\ LET r == [op[o] EXCEPT !.cmds = @ + 1, !.pc = "read_html"]
       IN \/ /\ op' = [op EXCEPT ![o] = [r EXCEPT !.title = TitleOf(page)]]
             /\ UNCHANGED faults
          \/ /\ CanFail /\ Fault
             /\ op' = [op EXCEPT ![o] = [r EXCEPT !.title = "",
                                                  !.readFail = @ \cup {"title"}]]
    /\ UNCHANGED <<browser_manager, page, running>>
    /\ UNCHANGED <<lifespan, parser>>

\* lines 176-196: html = driver.page_source or "", then the ok output;
\* fetch_url lines 97-103 return it
ReadHtml(o) ==
    /\ op[o].pc = "read_html"
    /\ running = o
    /\ LET r == [op[o] EXCEPT !.cmds = @ + 1, !.pc = "done", !.status = "ok",
                              !.error = NoError]
       IN \/ /\ op' = [op EXCEPT ![o] = [r EXCEPT !.html = HtmlOf(page)]]
             /\ UNCHANGED faults
          \/ /\ CanFail /\ Fault
             /\ op' = [op EXCEPT ![o] = [r EXCEPT !.html = "",
                                                  !.readFail = @ \cup {"page_source"}]]
    /\ running' = "idle"
    /\ UNCHANGED <<browser_manager, page>>
    /\ UNCHANGED <<lifespan, parser>>

\* wait_exponential(multiplier=1, min=1, max=10), exp_base left at its default
WaitMultiplier == 1
WaitMin == 1
WaitMax == 10
ExpBase == 2

Min(a, b) == IF a < b THEN a ELSE b
Max(a, b) == IF a > b THEN a ELSE b

\* mutant: the exponent is the attempt number, the first delay is 2 s
wait_exponential_FromBase(attempt_number) ==
    Max(Max(0, WaitMin), Min(WaitMultiplier * ExpBase ^ attempt_number, WaitMax))

\* tenacity.wait_exponential.__call__: the seconds slept after the attempt
\* of this number failed
wait_exponential(attempt_number) ==
    Max(Max(0, WaitMin),
        Min(WaitMultiplier * ExpBase ^ (attempt_number - 1), WaitMax))

\* tenacity sleeps wait_exponential(...) and calls the function again
Backoff(o) ==
    /\ op[o].pc = "backoff"
    /\ running = "idle"
    /\ op' = [op EXCEPT ![o] = [@ EXCEPT !.pc = "get_driver",
                                         !.attempt = @ + 1,
                                         !.delays = Append(@,
                                             wait_exponential(op[o].attempt))]]
    /\ UNCHANGED <<browser_manager, page, running, faults>>
    /\ UNCHANGED <<lifespan, parser>>

\* ----------------------------------------------------------- web_search
KnownEngines == {"google_scholar", "pubmed", "ieee", "arxiv", "medrxiv", "biorxiv"}

\* mutant: the else branch falls back to the default engine
SearchRoutine_DefaultEngine(engine) ==
    IF engine \in KnownEngines THEN engine ELSE "google_scholar"

\* web_search lines 145-164: the engine routine the if/elif chain selects
SearchRoutine(engine) ==
    IF engine \in KnownEngines THEN engine ELSE "unsupported"

\* the search_url each _search_<engine> routine builds
SearchUrl(engine, query) ==
    CASE engine = "google_scholar" ->
             "https://scholar.google.com/scholar?q=" \o quote_plus(query)
      [] engine = "pubmed" ->
             "https://pubmed.ncbi.nlm.nih.gov/?term=" \o quote_plus(query)
      [] engine = "ieee" ->
             "https://ieeexplore.ieee.org/search/searchresult.jsp?queryText="
                 \o quote_plus(query)
      [] engine = "arxiv" ->
             "https://arxiv.org/search/?query=" \o quote_plus(query)
      [] engine = "medrxiv" ->
             "https://www.medrxiv.org/search/" \o quote_plus(query)
      [] OTHER -> "https://www.biorxiv.org/search/" \o quote_plus(query)

\* web_search lines 115-164: what happens before the engine routine is awaited
WebSearchEntry(q, engine, mgr) ==
    IF q = ""
    THEN [next |-> "return", error |-> "Search query cannot be empty",
          getterCalls |-> 0]
    ELSE IF mgr = "None"
    THEN [next |-> "return", error |-> "Browser manager not available",
          getterCalls |-> 1]
    ELSE IF SearchRoutine(engine) = "unsupported"
    THEN [next |-> "return", error |-> "Unsupported search engine",
          getterCalls |-> 1]
    ELSE [next |-> "search", error |-> NoError, getterCalls |-> 1]

\* WebSearchOutput(results=[], ..., status="error", error=...)
SearchErrorOutput(r, error) ==
    [r EXCEPT !.pc = "done", !.status = "error", !.error = error,
              !.parsed = FALSE]

\* web_search lines 166-184: WebSearchOutput(results=results, status="ok")
SearchOkOutput(r) ==
    [r EXCEPT !.pc = "done", !.status = "ok", !.error = NoError]

\* _search_<engine>: except Exception: logger.error(...); return results (empty)
SearchFailed(r, f) ==
    SearchOkOutput([r EXCEPT !.fails = Append(@, f), !.parsed = FALSE])

\* a client calls the search tool (registered with app.py's lambda getter)
CallSearch(o, q, e) ==
    /\ op[o].pc = "idle"
    /\ running = "idle"
    /\ op' = [op EXCEPT ![o] = [@ EXCEPT !.kind = "search", !.pc = "web_search",
                                         !.query = strip(q), !.engine = lower(e),
                                         !.getter = "app_lambda"]]
    /\ running' = o
    /\ UNCHANGED <<browser_manager, page, faults>>
    /\ UNCHANGED <<lifespan, parser>>

WebSearch(o) ==
    /\ op[o].pc = "web_search"
    /\ running = o
    /\ LET r == op[o]
           e == WebSearchEntry(r.query, r.engine, browser_manager)
           r1 == [r EXCEPT !.getterCalls = e.getterCalls]
       IN op' = [op EXCEPT ![o] =
                   IF e.next = "return"
                   THEN SearchErrorOutput(r1, e.error)
                   ELSE [r1 EXCEPT !.pc = "s_get_driver", !.attempt = 1,
                                   !.target = SearchUrl(r.engine, r.query)]]
    /\ running' = "idle"
    /\ UNCHANGED <<browser_manager, page, faults>>
    /\ UNCHANGED <<lifespan, parser>>

\* _search_<engine>: driver = await browser_manager.get_driver()
SearchGetDriver(o) ==
    /\ op[o].pc = "s_get_driver"
    /\ running = "idle"
    /\ LET r == [op[o] EXCEPT !.gdCalls = @ + 1]
       IN IF get_driver_ok
          THEN /\ op' = [op EXCEPT ![o] = [r EXCEPT !.pc = "s_navigate"]]
               /\ running' = o
          ELSE /\ op' = [op EXCEPT ![o] = SearchFailed(r, NotAvailable)]
               /\ running' = "idle"
    /\ UNCHANGED <<browser_manager, page, faults>>
    /\ UNCHANGED <<lifespan, parser>>

\* _search_<engine>: driver.get(search_url)
SearchNavigate(o) ==
    /\ op[o].pc = "s_navigate"
    /\ running = o
    /\ LET r == [op[o] EXCEPT !.navs = @ + 1, !.cmds = @ + 1]
       IN \/ /\ page' = r.target
             /\ op' = [op EXCEPT ![o] = [r EXCEPT !.pc = "s_wait"]]
             /\ UNCHANGED <<running, faults>>
          \/ /\ CanFail /\ Fault
             /\ \E f \in DriverFailures("navigate") :
                    op' = [op EXCEPT ![o] = SearchFailed(r, f)]
             /\ running' = "idle"
             /\ UNCHANGED page
    /\ UNCHANGED browser_manager
    /\ UNCHANGED <<lifespan, parser>>

\* _wait_for_search_results lines 1256-1286: WebDriverWait.until blocks the
\* thread; only a page that got ready reaches await asyncio.sleep(1)
SearchWait(o) ==
    /\ op[o].pc = "s_wait"
    /\ running = o
    /\ \/ \* readyState complete, find_elements, then await asyncio.sleep(1)
          /\ op' = [op EXCEPT ![o] = [@ EXCEPT !.cmds = @ + 2, !.pc = "s_settle"]]
          /\ running' = "idle"
          /\ UNCHANGED faults
       \/ \* TimeoutException after max_wait: warning, no sleep
          /\ op' = [op EXCEPT ![o] = [@ EXCEPT !.cmds = @ + 1, !.pc = "s_read",
                                               !.timedOut = TRUE]]
          /\ UNCHANGED <<running, faults>>
       \/ \* execute_script raised: logged at debug level, no sleep
          /\ CanFail /\ Fault
          /\ op' = [op EXCEPT ![o] = [@ EXCEPT !.cmds = @ + 1, !.pc = "s_read"]]
          /\ UNCHANGED running
    /\ UNCHANGED <<browser_manager, page>>
    /\ UNCHANGED <<lifespan, parser>>

\* asyncio.sleep(1) is over
SearchWake(o) ==
    /\ op[o].pc = "s_settle"
    /\ running = "idle"
    /\ op' = [op EXCEPT ![o] = [@ EXCEPT !.pc = "s_read"]]
    /\ running' = o
    /\ UNCHANGED <<browser_manager, page, faults>>
    /\ UNCHANGED <<lifespan, parser>>

\* _search_<engine>: html = driver.page_source; results = _parse_..._results(...)
SearchRead(o) ==
    /\ op[o].pc = "s_read"
    /\ running = o
    /\ LET r == [op[o] EXCEPT !.cmds = @ + 1]
       IN \/ /\ op' = [op EXCEPT ![o] =
                        SearchOkOutput([r EXCEPT !.html = HtmlOf(page),
                                                 !.parsed = TRUE])]
             /\ UNCHANGED faults
          \/ /\ CanFail /\ Fault
             /\ \E f \in DriverFailures("page_source") :
                    op' = [op EXCEPT ![o] =
                             SearchFailed([r EXCEPT !.readFail = {"page_source"}], f)]
    /\ running' = "idle"
    /\ UNCHANGED <<browser_manager, page>>
    /\ UNCHANGED <<lifespan, parser>>

\* ----------------------------------------------------- result extraction
\* result elements on one page of search results
MaxElems == 3

\* what element.select_one(selector) gives: None, or a node, of which the
\* extractors use the text (extract_element_text) and the href attribute
NoMatch == [found |-> FALSE, text |-> "", href |-> ""]
Node(text, href) == [found |-> TRUE, text |-> text, href |-> href]

LongAbstract == "an abstract of 301 characters"
CutAbstract == "an abstract of 297 chara..."

\* a result element: what each selector of the title chain and of the snippet
\* chain of the engine that parses it selects in it, and whether reading it
\* raises
Element(t1, t2, t3, s1, s2, raises) ==
    [title |-> <<t1, t2, t3, NoMatch>>, snippet |-> <<s1, s2, NoMatch>>,
     raises |-> raises]

Elements ==
    {[Element(t1, t2, t3, s1, s2, raises) EXCEPT !.title[4] = t4] :
        t1 \in {NoMatch, Node("", ""), Node("Nets", ""),
                Node("Deep  Learning", "/abs/1"),
                Node("Deep  Learning", "abs/1"),
                Node("Nets", "https://doi.org/1")},
        t2 \in {NoMatch, Node("Nets", "https://doi.org/1")},
        t3 \in {NoMatch, Node("Nets", "/abs/1")},
        t4 \in {NoMatch, Node("Nets", "/abs/1")},
        s1 \in {NoMatch, Node("", ""), Node("An  abstract", "")},
        s2 \in {NoMatch, Node(LongAbstract, "")},
        raises \in BOOLEAN}

\* the elements the longer pages are made of
Plain ==
    Element(Node("Deep  Learning", "/abs/1"), NoMatch, NoMatch,
            Node("An  abstract", ""), NoMatch, FALSE)
Bare ==
    Element(Node("Nets", "https://doi.org/1"), NoMatch, NoMatch,
            NoMatch, NoMatch, FALSE)
Untitled == Element(NoMatch, NoMatch, NoMatch, NoMatch, NoMatch, FALSE)
Raising == [Plain EXCEPT !.raises = TRUE]

ElementLists ==
    {<<e>> : e \in Elements}
        \cup UNION {[1..m -> {Plain, Bare, Untitled, Raising}] : m \in 0..MaxElems}

\* a page: the elements each of the three container selectors of the engine
\* matches in it.  The k-th selector matches the elements of list; the
\* selectors before it match nothing, the selectors after it match Bare
Html(k, list) ==
    [j \in 1..3 |-> IF j < k THEN <<>> ELSE IF j = k THEN list ELSE <<Bare>>]

Htmls == {Html(k, list) : k \in 1..3, list \in ElementLists}

\* WebSearchInput.num_results: ge=1, le=20
NumResults == {1, 2, 20}

\* result_selectors of the _parse_<engine>_results functions
result_selectors(engine) ==
    CASE engine = "google_scholar" -> <<".gs_r.gs_or.gs_scl", ".gs_ri", "[data-lid]">>
      [] engine = "pubmed" -> <<"article.full-docsum", ".docsum-wrap", ".docsum-content">>
      [] engine = "ieee" -> <<".List-results-items", ".result-item", ".document">>
      [] engine = "arxiv" -> <<"li.arxiv-result", ".list-item", "ol li">>
      [] OTHER -> <<".highwire-cite", ".search-result", ".result-item">>

\* title_selectors of the _extract_<engine>_result functions
title_selectors(engine) ==
    CASE engine = "google_scholar" -> <<"h3.gs_rt a", ".gs_rt a", "h3 a", ".gs_rt">>
      [] engine = "pubmed" -> <<".docsum-title a", "h1 a", ".title a">>
      [] engine = "ieee" -> <<".result-item-title a", "h2 a", ".title a">>
      [] engine = "arxiv" -> <<".list-title a", "p.title a", ".title a">>
      [] OTHER -> <<".highwire-cite-title a", ".citation-title a", ".title a">>

\* mutant: the URL loop of Google Scholar runs over all the title selectors
url_selectors_Full(engine) == title_selectors(engine)

\* the selectors of the URL loop: title_selectors[:2] for Google Scholar,
\* title_selectors for the other engines
url_selectors(engine) ==
    IF engine = "google_scholar" THEN SubSeq(title_selectors(engine), 1, 2)
    ELSE title_selectors(engine)

\* snippet_selectors of the _extract_<engine>_result functions
snippet_selectors(engine) ==
    CASE engine = "google_scholar" -> <<".gs_rs", ".gs_a + div", ".gs_fl + div">>
      [] engine = "pubmed" -> <<".full-view-snippet", ".docsum-snippet", ".abstract">>
      [] engine = "ieee" -> <<".description", ".abstract", ".snippet">>
      [] engine = "arxiv" -> <<".list-abstract", "p.abstract", ".abstract">>
      [] OTHER -> <<".highwire-cite-snippet", ".citation-snippet", ".abstract">>

\* the first argument of urljoin in the _extract_<engine>_result functions
base_url(engine) ==
    CASE engine = "google_scholar" -> "https://scholar.google.com"
      [] engine = "pubmed" -> "https://pubmed.ncbi.nlm.nih.gov"
      [] engine = "ieee" -> "https://ieeexplore.ieee.org"
      [] engine = "arxiv" -> "https://arxiv.org"
      [] engine = "medrxiv" -> "https://www.medrxiv.org"
      [] OTHER -> "https://www.biorxiv.org"

\* str.startswith('/') on the hrefs of the model
startswith_slash(url) == url = "/abs/1"

\* urllib.parse.urljoin of a base without path and a path that starts with '/'
urljoin(base, url) == base \o url

\* server.utils.parsing.clean_text_content on the texts of the model
clean_text_content(text) ==
    CASE text = "Deep  Learning" -> "Deep Learning"
      [] text = "An  abstract" -> "An abstract"
      [] OTHER -> text

\* server.utils.parsing.truncate_text(text, max_length=300)
truncate_text(text) == IF text = LongAbstract THEN CutAbstract ELSE text

\* for selector in selectors: e = element.select_one(selector);
\* if e: value = extract_element_text(e); break
\* the position in the chain of the selector the loop stops at, 0 if none
RECURSIVE first_match(_, _, _)
first_match(matches, i, n) ==
    IF i > n THEN 0
    ELSE IF matches[i].found THEN i
    ELSE first_match(matches, i + 1, n)

\* for selector in selectors: e = element.select_one(selector);
\* if e and e.get('href'): url = e['href']; break
RECURSIVE first_href(_, _, _)
first_href(matches, i, n) ==
    IF i > n THEN 0
    ELSE IF matches[i].found /\ matches[i].href # "" THEN i
    ELSE first_href(matches, i + 1, n)

\* the title loop of _extract_<engine>_result
extract_title(engine, element) ==
    LET i == first_match(element.title, 1, Len(title_selectors(engine)))
    IN  IF i = 0 THEN "" ELSE element.title[i].text

\* the URL loop of _extract_<engine>_result
extract_url(engine, element) ==
    LET i == first_href(element.title, 1, Len(url_selectors(engine)))
    IN  IF i = 0 THEN "" ELSE element.title[i].href

\* the snippet loop of _extract_<engine>_result
extract_snippet(engine, element) ==
    LET i == first_match(element.snippet, 1, Len(snippet_selectors(engine)))
    IN  IF i = 0 THEN "" ELSE element.snippet[i].text

\* if url.startswith('/'): url = urljoin(<base of the engine>, url)
clean_up_url(engine, url) ==
    IF startswith_slash(url) THEN urljoin(base_url(engine), url) ELSE url

\* mutant: an element without snippet is discarded as well
extract_result_SnippetRequired(engine, element) ==
    IF element.raises THEN <<>>
    ELSE IF extract_title(engine, element) = "" THEN <<>>
    ELSE IF extract_url(engine, element) = "" THEN <<>>
    ELSE IF extract_snippet(engine, element) = "" THEN <<>>
    ELSE <<[title |-> clean_text_content(extract_title(engine, element)),
            url |-> clean_up_url(engine, extract_url(engine, element)),
            snippet |-> truncate_text(clean_text_content(
                            extract_snippet(engine, element)))]>>

\* _extract_<engine>_result(element): <<>> stands for None, <<r>> for the
\* SearchResult r
extract_result(engine, element) ==
    IF element.raises THEN <<>>
    ELSE IF extract_title(engine, element) = "" THEN <<>>
    ELSE IF extract_url(engine, element) = "" THEN <<>>
    ELSE <<[title |-> clean_text_content(extract_title(engine, element)),
            url |-> clean_up_url(engine, extract_url(engine, element)),
            snippet |-> truncate_text(clean_text_content(
                            extract_snippet(engine, element)))]>>

\* mutant: the loop does not break, the last selector that matches is used
RECURSIVE first_selector_NoBreak(_, _)
first_selector_NoBreak(html, k) ==
    IF k > 3 THEN 0
    ELSE IF first_selector_NoBreak(html, k + 1) # 0
    THEN first_selector_NoBreak(html, k + 1)
    ELSE IF html[k] # <<>> THEN k
    ELSE 0

\* the container loop of _parse_<engine>_results: the position of the first
\* selector soup.select finds elements for, 0 if none does
RECURSIVE first_selector(_, _)
first_selector(html, k) ==
    IF k > 3 THEN 0
    ELSE IF html[k] # <<>> THEN k
    ELSE first_selector(html, k + 1)

\* mutant: result_elements[:max_results + 1]
examined_OneMore(result_elements, max_results) ==
    SubSeq(result_elements, 1, Min(max_results + 1, Len(result_elements)))

\* result_elements[:max_results]
examined(result_elements, max_results) ==
    SubSeq(result_elements, 1, Min(max_results, Len(result_elements)))

\* web_search is called with num_results = n on a page the driver shows
ParseCalls ==
    {[NoParse EXCEPT !.pc = "call", !.engine = e, !.html = h, !.num_results = n] :
        e \in KnownEngines, h \in Htmls, n \in NumResults}

\* web_search line 117 and _parse_<engine>_results up to the element loop
ParseSelect ==
    /\ parser.pc = "call"
    /\ LET k == first_selector(parser.html, 1)
           max_results == Min(parser.num_results, 20)
       IN parser' =
            IF k = 0
            THEN [parser EXCEPT !.pc = "return", !.max_results = max_results]
            ELSE [parser EXCEPT !.pc = "extract",
                                !.max_results = max_results,
                                !.selector = result_selectors(parser.engine)[k],
                                !.result_elements = parser.html[k]]
    /\ UNCHANGED <<browser_manager, page, running, faults, op, lifespan>>

\* mutant: the loop runs over all the elements until max_results are kept
ParseExtract_CapOnKept ==
    /\ parser.pc = "extract"
    /\ LET todo == parser.result_elements
       IN IF parser.i < Len(todo) /\ Len(parser.results) < parser.max_results
          THEN parser' =
                 [parser EXCEPT !.i = @ + 1,
                                !.results =
                                    @ \o extract_result(parser.engine,
                                                        todo[parser.i + 1])]
          ELSE parser' = [parser EXCEPT !.pc = "return"]
    /\ UNCHANGED <<browser_manager, page, running, faults, op, lifespan>>

\* mutant: an extraction failure ends the element loop
ParseExtract_AbortOnFailure ==
    /\ parser.pc = "extract"
    /\ LET todo == examined(parser.result_elements, parser.max_results)
       IN IF parser.i < Len(todo) /\ ~todo[parser.i + 1].raises
          THEN parser' =
                 [parser EXCEPT !.i = @ + 1,
                                !.results =
                                    @ \o extract_result(parser.engine,
                                                        todo[parser.i + 1])]
          ELSE parser' = [parser EXCEPT !.pc = "return"]
    /\ UNCHANGED <<browser_manager, page, running, faults, op, lifespan>>

\* one turn of for i, element in enumerate(result_elements[:max_results])
ParseExtract ==
    /\ parser.pc = "extract"
    /\ LET todo == examined(parser.result_elements, parser.max_results)
       IN IF parser.i < Len(todo)
          THEN parser' =
                 [parser EXCEPT !.i = @ + 1,
                                !.results =
                                    @ \o extract_result(parser.engine,
                                                        todo[parser.i + 1])]
          ELSE parser' = [parser EXCEPT !.pc = "return"]
    /\ UNCHANGED <<browser_manager, page, running, faults, op, lifespan>>

\* return results; web_search lines 166-184 put them in the ok output
ParseReturn ==
    /\ parser.pc = "return"
    /\ parser' = [parser EXCEPT !.pc = "done", !.status = "ok"]
    /\ UNCHANGED <<browser_manager, page, running, faults, op, lifespan>>

\* -------------------------------------------------- convert_to_markdown
ContentTypes == {"url", "html", "pdf_url", "pdf"}
Contents == {"http://a/", "HTTP://B/", "http://127.0.0.1/admin", "<h1>Hi</h1>"}

\* result.text_content of MarkItDown's convert_local / convert_url
TextContent(content) == "# markdown of " \o content

\* ConvertToMarkdownOutput(markdown="", conversion_success=False,
\* status="error", error=...)
ConvertErrorOutput(r, original_format, error) ==
    [r EXCEPT !.pc = "done", !.markdown = "",
              !.original_format = original_format,
              !.conversion_success = FALSE, !.status = "error",
              !.error = error]

\* ConvertToMarkdownOutput(markdown=result.text_content,
\* conversion_success=True, status="ok")
ConvertOkOutput(r, original_format, source) ==
    [r EXCEPT !.pc = "done", !.markdown = TextContent(source),
              !.original_format = original_format,
              !.conversion_success = TRUE, !.status = "ok",
              !.error = NoError]

\* original_format = "pdf" if content_type == "pdf_url" else "html"
OriginalFormat(content_type) == IF content_type = "pdf_url" THEN "pdf" ELSE "html"

\* mutant: the URL is handed to the converter without validation
ConvertEntry_NoValidation(content_type, content) ==
    IF content_type \notin {"url", "html", "pdf_url"}
    THEN [next |-> "return", format |-> "unknown", error |-> "Invalid content_type"]
    ELSE IF content_type = "html"
    THEN [next |-> "convert_html", format |-> "html", error |-> NoError]
    ELSE [next |-> "convert_url", format |-> OriginalFormat(content_type),
          error |-> NoError]

\* convert_to_markdown lines 104-140: what happens before a converter routine
\* is awaited
ConvertEntry(content_type, content) ==
    IF content_type \notin {"url", "html", "pdf_url"}
    THEN [next |-> "return", format |-> "unknown", error |-> "Invalid content_type"]
    ELSE IF content_type = "html"
    THEN [next |-> "convert_html", format |-> "html", error |-> NoError]
    ELSE IF ~validate_url_security(content)
    THEN [next |-> "return", format |-> "url", error |-> "URL validation failed"]
    ELSE [next |-> "convert_url", format |-> OriginalFormat(content_type),
          error |-> NoError]

\* a client calls the convert tool
CallConvert(o, t, c) ==
    /\ op[o].pc = "idle"
    /\ running = "idle"
    /\ op' = [op EXCEPT ![o] = [@ EXCEPT !.kind = "convert",
                                         !.pc = "convert_to_markdown",
                                         !.content_type = t, !.content = c]]
    /\ running' = o
    /\ UNCHANGED <<browser_manager, page, faults, lifespan, parser>>

\* convert_to_markdown lines 103-140
ConvertToMarkdown(o) ==
    /\ op[o].pc = "convert_to_markdown"
    /\ running = o
    /\ LET r == op[o]
           e == ConvertEntry(r.content_type, r.content)
       IN \/ /\ op' = [op EXCEPT ![o] =
                        IF e.next = "return"
                        THEN ConvertErrorOutput(r, e.format, e.error)
                        ELSE [r EXCEPT !.pc = e.next,
                                       !.target =
                                           IF e.next = "convert_url"
                                           THEN normalize_url(r.content)
                                           ELSE r.content]]
             /\ running' = IF e.next = "return" THEN "idle" ELSE o
             /\ UNCHANGED faults
          \/ \* MarkItDown() raised: except Exception, lines 151-163
             /\ e.next # "return"
             /\ CanFail /\ Fault
             /\ op' = [op EXCEPT ![o] =
                        ConvertErrorOutput(r, r.content_type, "Unexpected error")]
             /\ running' = "idle"
    /\ UNCHANGED <<browser_manager, page, lifespan, parser>>

\* _convert_html_content: temporary file, md_converter.convert_local
ConvertHtml(o) ==
    /\ op[o].pc = "convert_html"
    /\ running = o
    /\ LET r == op[o]
           called == [r EXCEPT !.convertCalls = @ + 1]
       IN \/ /\ op' = [op EXCEPT ![o] = ConvertOkOutput(called, "html", r.target)]
             /\ UNCHANGED faults
          \/ \* the temporary file could not be written
             /\ CanFail /\ Fault
             /\ op' = [op EXCEPT ![o] =
                        ConvertErrorOutput(r, "html", "HTML conversion failed")]
          \/ \* convert_local raised
             /\ CanFail /\ Fault
             /\ op' = [op EXCEPT ![o] =
                        ConvertErrorOutput(called, "html", "HTML conversion failed")]
    /\ running' = "idle"
    /\ UNCHANGED <<browser_manager, page, lifespan, parser>>

\* _convert_url_content: md_converter.convert_url(url)
ConvertUrl(o) ==
    /\ op[o].pc = "convert_url"
    /\ running = o
    /\ LET r == [op[o] EXCEPT !.convertCalls = @ + 1]
       IN \/ /\ op' = [op EXCEPT ![o] =
                        ConvertOkOutput(r, OriginalFormat(r.content_type), r.target)]
             /\ UNCHANGED faults
          \/ /\ CanFail /\ Fault
             /\ op' = [op EXCEPT ![o] =
                        ConvertErrorOutput(r, OriginalFormat(r.content_type),
                                           "URL conversion failed")]
    /\ running' = "idle"
    /\ UNCHANGED <<browser_manager, page, lifespan, parser>>

\* ------------------------------------------------------- specifications
\* no tool has been called yet
NoCallYet == \A p \in Ops : op[p].pc = "idle"

\* the one tool call of a run of Spec
SoleCallFetch(o, u, g) == NoCallYet /\ CallFetch(o, u, g)
SoleCallSearch(o, q, e) == NoCallYet /\ CallSearch(o, q, e)

\* the steps of the calls in flight and of the lifespan
Step ==
    \/ LifespanStartup
    \/ LifespanShutdown
    \/ LifespanAborted
    \/ \E o \in Ops : FetchUrl(o)
    \/ \E o \in Ops : GetDriver(o)
    \/ \E o \in Ops : Navigate(o)
    \/ \E o \in Ops : Poll(o)
    \/ \E o \in Ops : WakePoll(o)
    \/ \E o \in Ops : WakeSettle(o)
    \/ \E o \in Ops : WaitTimedOut(o)
    \/ \E o \in Ops : ReadUrl(o)
    \/ \E o \in Ops : ReadTitle(o)
    \/ \E o \in Ops : ReadHtml(o)
    \/ \E o \in Ops : Backoff(o)
    \/ \E o \in Ops : WebSearch(o)
    \/ \E o \in Ops : SearchGetDriver(o)
    \/ \E o \in Ops : SearchNavigate(o)
    \/ \E o \in Ops : SearchWait(o)
    \/ \E o \in Ops : SearchWake(o)
    \/ \E o \in Ops : SearchRead(o)

Next ==
    \/ \E o \in Ops, u \in Urls, g \in Getters : SoleCallFetch(o, u, g)
    \/ \E o \in Ops, q \in Queries, e \in Engines : SoleCallSearch(o, q, e)
    \/ Step

\* one tool call, the driver failing up to MaxFaults times
Spec == Init /\ [][Next]_vars

\* a reliable driver: the environment injects no failure
InitConc ==
    /\ browser_manager = "None"
    /\ page = BlankPage
    /\ running = "idle"
    /\ faults = MaxFaults
    /\ op = [o \in Ops |-> IdleOp]
    /\ lifespan = "created"
    /\ parser = NoParse

NextConc ==
    \/ \E o \in Ops, u \in Urls, g \in Getters : CallFetch(o, u, g)
    \/ \E o \in Ops, q \in Queries, e \in Engines : CallSearch(o, q, e)
    \/ Step

\* tool calls arriving while others are in flight, on a reliable driver
SpecConc == InitConc /\ [][NextConc]_vars

\* the event loop runs every task that is ready: a poll that is due is made,
\* a sleep that is over is left; the clock advances
Scheduling ==
    \A o \in Ops :
        /\ WF_vars(Poll(o))
        /\ WF_vars(WakePoll(o))
        /\ WF_vars(WakeSettle(o))
        /\ WF_vars(WaitTimedOut(o))

\* one tool call on a running event loop
SpecLive == Spec /\ Scheduling

NextConvert ==
    \/ \E o \in Ops, t \in ContentTypes, c \in Contents : CallConvert(o, t, c)
    \/ \E o \in Ops : ConvertToMarkdown(o)
    \/ \E o \in Ops : ConvertHtml(o)
    \/ \E o \in Ops : ConvertUrl(o)

\* calls of the convert tool, the conversion engine failing up to MaxFaults times
SpecConvert == Init /\ [][NextConvert]_vars

\* the parser of a search called on one page of results
InitParse ==
    /\ browser_manager = "started"
    /\ page = BlankPage
    /\ running = "idle"
    /\ faults = 0
    /\ op = [o \in Ops |-> IdleOp]
    /\ lifespan = "serving"
    /\ parser \in ParseCalls

NextParse ==
    \/ ParseSelect
    \/ ParseExtract
    \/ ParseReturn

SpecParse == InitParse /\ [][NextParse]_vars

\* ================================================================ claims
Fetches == {o \in Ops : op[o].kind = "fetch"}
Searches == {o \in Ops : op[o].kind = "search"}

\* the task has issued its navigate command and not yet finished reading back
InNavigateRead(o) ==
    op[o].pc \in {"poll", "poll_sleep", "settle", "wait_timeout", "read_url",
                  "read_title", "read_html", "s_wait", "s_settle", "s_read"}

\* C1: two operations on the same driver never interleave their navigate->read
\* sequences (no second navigate before the first read-back is over), so every
\* operation reads back the page it navigated to itself.
C1_NoInterleavedNavigateRead ==
    /\ \A o1, o2 \in Ops : o1 # o2 => ~(InNavigateRead(o1) /\ InNavigateRead(o2))
    /\ \A o \in Ops :
          op[o].pc = "done" /\ op[o].status = "ok" /\ op[o].navs > 0 =>
              /\ op[o].html = HtmlOf(op[o].target)
              /\ op[o].kind = "fetch" => op[o].final_url = op[o].target

\* C2: the fetch tool as app.py registers it (the lambda getter), given a valid
\* URL, a started browser manager and a driver that does not fail, navigates
\* exactly once to the normalized URL and returns status ok with the page.
C2_RegisteredFetchReturnsPage ==
    \A o \in Fetches :
        /\ op[o].pc = "done"
        /\ op[o].getter = "app_lambda"
        /\ validate_url_security(op[o].url)
        /\ browser_manager = "started"
        /\ op[o].fails = <<>>
        => /\ op[o].status = "ok"
           /\ op[o].navs = 1
           /\ op[o].gdCalls = 1
           /\ op[o].final_url = op[o].target

\* C3: a URL the validator rejects makes fetch_url return status error naming
\* the validation failure, with no getter call, no get_driver call and no
\* driver command.
C3_RejectedUrlNoSession ==
    \A o \in Fetches :
        op[o].pc # "fetch_url" /\ ~validate_url_security(op[o].url) =>
            /\ op[o].pc = "done"
            /\ op[o].status = "error"
            /\ op[o].error = "URL validation failed"
            /\ op[o].getterCalls = 0
            /\ op[o].gdCalls = 0
            /\ op[o].navs = 0
            /\ op[o].cmds = 0

C3_Witness ==
    \E o \in Fetches :
        /\ op[o].pc = "done"
        /\ ~validate_url_security(op[o].url)
        /\ op[o].error = "URL validation failed"

\* C4: no failure leaves fetch_url or web_search as an exception: every call
\* that ends has returned an output whose status is ok or error.
C4_NoFaultCrossesBoundary ==
    \A o \in Ops :
        /\ op[o].pc # "raised"
        /\ op[o].pc = "done" => op[o].status \in {"ok", "error"}

C4_Witness ==
    \E o \in Fetches :
        /\ op[o].pc = "done"
        /\ op[o].status = "error"
        /\ op[o].error = "Unexpected error"
        /\ Len(op[o].fails) = StopAfterAttempt

\* the failure went through the keyword test of lines 212-213 and was re-raised
ClassifiedTransient(f) == f.type = "WebDriverException" /\ IsTransient(f)

EveryAttemptFailedTransient(o) ==
    /\ op[o].fails # <<>>
    /\ Len(op[o].fails) = op[o].attempt
    /\ \A i \in 1..Len(op[o].fails) :
          op[o].fails[i].at = "navigate" /\ ClassifiedTransient(op[o].fails[i])

C6_FatalFailureNotRetried ==
    \A o \in Fetches :
        op[o].fails # <<>> /\ ~IsTransient(op[o].fails[1]) =>
            /\ op[o].pc = "done"
            /\ op[o].status = "error"
            /\ op[o].attempt = 1
            /\ op[o].gdCalls = 1

\* C7: a fetch whose page never reports complete within the readiness budget
\* (no driver command failing) returns status error with a message about the
\* timeout.
C7_ReadinessTimeoutIsError ==
    \A o \in Fetches :
        op[o].pc = "done" /\ op[o].timedOut /\ op[o].fails = <<>> =>
            op[o].status = "error" /\ op[o].error = "Page load timeout"

\* the field of the output that a read-back command fills
FieldOf(r, read) ==
    CASE read = "current_url" -> r.final_url
      [] read = "title" -> r.title
      [] OTHER -> r.html

\* C8: a failing read of current_url, title or page_source leaves that field
\* empty; the other fields are still read and the fetch returns status ok
\* without retrying.
C8_ReadFailureDegradesField ==
    \A o \in Fetches :
        op[o].readFail # {} =>
            /\ op[o].pc \in {"read_title", "read_html", "done"}
            /\ op[o].pc = "done" =>
                  /\ op[o].status = "ok"
                  /\ op[o].attempt = 1
                  /\ \A read \in op[o].readFail : FieldOf(op[o], read) = ""

\* C9: a web_search that cannot get the driver, or whose navigation or page
\* read fails, returns status error with a message; status ok means
\* navigation and read-back succeeded.
C9_SearchFailureIsError ==
    \A o \in Searches :
        op[o].pc = "done" =>
            /\ op[o].fails # <<>> =>
                  op[o].status = "error" /\ op[o].error # NoError
            /\ op[o].status = "ok" => op[o].parsed

\* C10: a web_search whose trimmed query is empty or whose engine is not one
\* of the six known engines returns status error with a message and makes no
\* get_driver call and no driver command.
C10_InvalidSearchNoSession ==
    \A o \in Searches :
        /\ op[o].pc # "web_search"
        /\ op[o].query = "" \/ op[o].engine \notin KnownEngines
        => /\ op[o].pc = "done"
           /\ op[o].status = "error"
           /\ op[o].error # NoError
           /\ op[o].gdCalls = 0
           /\ op[o].navs = 0
           /\ op[o].cmds = 0

C10_Witness ==
    \E o \in Searches :
        /\ op[o].pc = "done"
        /\ op[o].query # ""
        /\ op[o].engine \notin KnownEngines
        /\ op[o].error = "Unsupported search engine"

\* the extractor of the engine gets a title and a link out of the element
Extractable(engine, element) ==
    /\ ~element.raises
    /\ extract_title(engine, element) # ""
    /\ extract_url(engine, element) # ""

\* the parser call is over and its results are in the output of the search
Parsed == parser.pc = "done"

\* C11: for every known engine and a page with K result elements, each with an
\* extractable title and link, a search with num_results = n returns exactly
\* min(n, K) results; in every case it returns at most n and at most 20
\* results, each with a non-empty title.
C11_MinOfRequestedAndFound ==
    Parsed =>
        LET K == Len(parser.result_elements)
            n == parser.num_results
        IN  /\ (\A j \in 1..K :
                    Extractable(parser.engine, parser.result_elements[j]))
                => Len(parser.results) = Min(n, K)
            /\ Len(parser.results) <= n
            /\ Len(parser.results) <= 20
            /\ \A j \in 1..Len(parser.results) : parser.results[j].title # ""

\* three extractable elements, two requested, two returned
C11_Witness ==
    /\ Parsed
    /\ Len(parser.result_elements) = 3
    /\ \A j \in 1..3 : Extractable(parser.engine, parser.result_elements[j])
    /\ parser.num_results = 2
    /\ Len(parser.results) = 2

\* the absolute URLs among the URLs of the model: they have a scheme and a host
AbsoluteUrls ==
    {"https://doi.org/1"} \cup {base_url(e) \o "/abs/1" : e \in KnownEngines}

\* C12: the url of every returned SearchResult is absolute: every extracted
\* href that is relative is resolved against the base URL of the engine and is
\* never returned in relative form.
C12_ResultUrlsAbsolute ==
    Parsed => \A j \in 1..Len(parser.results) :
                  parser.results[j].url \in AbsoluteUrls

\* C13: once the lifespan has started the browser manager, every exit from
\* the lifespan invokes its stop(), an exit by exception or cancellation while
\* operations are in flight included: after a successful start the shutdown is
\* never skipped.
C13_StopOnEveryExit ==
    lifespan = "exited" => browser_manager = "stopped"

\* C14: search navigation runs under the retry policy of fetch: a search whose
\* navigation fails with a transient failure is re-attempted, up to 3 attempts
\* in total, so a search that ended on transient navigation failures only has
\* navigated 3 times.
C14_SearchNavigationRetried ==
    \A o \in Searches :
        (/\ op[o].pc = "done"
         /\ op[o].fails # <<>>
         /\ \A i \in 1..Len(op[o].fails) :
                /\ op[o].fails[i].at = "navigate"
                /\ ClassifiedTransient(op[o].fails[i]))
        => op[o].navs = StopAfterAttempt

\* the i-th attempt of the fetch failed and the fetch went on to another one
Retried(o, i) ==
    \/ i < op[o].attempt
    \/ i = op[o].attempt /\ op[o].pc = "backoff"

\* the failures of the attempts that are not the last the policy allows
Retriable(o) == {i \in 1..Len(op[o].fails) : i < StopAfterAttempt}

\* C15: the retry decision for a failed fetch attempt is a function of the
\* description of the failure only (in the model: whether the description
\* holds a transient keyword): every failure whose description holds a
\* transient keyword is retried whatever its exception type, and two failures
\* with the same description get the same decision.
C15_RetryDecidedByDescription ==
    \A o \in Fetches :
        /\ \A i \in Retriable(o) : op[o].fails[i].kw => Retried(o, i)
        /\ \A i, j \in Retriable(o) :
               op[o].fails[i].kw = op[o].fails[j].kw
                   => (Retried(o, i) <=> Retried(o, j))

\* the content a chain gives when the value is taken from the first selector,
\* in priority order, whose node has non-empty content
RECURSIVE FirstNonEmpty(_, _, _, _)
FirstNonEmpty(matches, field, i, n) ==
    IF i > n THEN ""
    ELSE IF matches[i].found /\ matches[i][field] # "" THEN matches[i][field]
    ELSE FirstNonEmpty(matches, field, i + 1, n)

\* C16: within one element each field chain (title, link, snippet) is
\* evaluated in priority order and the value is taken from the first selector
\* that produces non-empty content: where a higher-priority selector matches
\* a node with empty content and a lower-priority one a node with content,
\* the field takes the content of the lower-priority one.  Stated on a page
\* of one result element whose chains give a title and a link.
C16_FirstNonEmptyContent ==
    (Parsed /\ Len(parser.result_elements) = 1) =>
        LET e == parser.result_elements[1]
            eng == parser.engine
            t == FirstNonEmpty(e.title, "text", 1, Len(title_selectors(eng)))
            u == FirstNonEmpty(e.title, "href", 1, Len(url_selectors(eng)))
            s == FirstNonEmpty(e.snippet, "text", 1, Len(snippet_selectors(eng)))
        IN  (~e.raises /\ t # "" /\ u # "") =>
                /\ Len(parser.results) = 1
                /\ parser.results[1].title = clean_text_content(t)
                /\ parser.results[1].url = clean_up_url(eng, u)
                /\ parser.results[1].snippet = truncate_text(clean_text_content(s))

\* the elements the element loop has examined
Examined == SubSeq(parser.result_elements, 1, parser.i)

\* C17: a result element is discarded exactly when its title chain or its
\* link chain yields nothing: the results are as many as the examined
\* elements (extraction failures apart) whose title chain and link chain both
\* yield something, every returned SearchResult has a non-empty title and a
\* non-empty url, and an element whose snippet chain is exhausted is still
\* returned, with snippet "".
C17_DiscardedIffNoTitleOrLink ==
    Parsed =>
        /\ Len(parser.results) =
               Cardinality({j \in 1..Len(Examined) :
                               Extractable(parser.engine, Examined[j])})
        /\ \A j \in 1..Len(parser.results) :
               /\ parser.results[j].title # ""
               /\ parser.results[j].url # ""

\* a page with an element returned with snippet "" and an element discarded
\* for want of a title or a link
C17_Witness ==
    /\ Parsed
    /\ \E j \in 1..Len(parser.results) : parser.results[j].snippet = ""
    /\ \E j \in 1..Len(Examined) :
           /\ ~Examined[j].raises
           /\ ~Extractable(parser.engine, Examined[j])
    /\ \E j \in 1..Len(Examined) :
           /\ Extractable(parser.engine, Examined[j])
           /\ extract_snippet(parser.engine, Examined[j]) = ""

\* the container selectors of the engine that match elements of the page
Matching == {k \in 1..3 : parser.html[k] # <<>>}

\* the element loop has been entered or the parser has returned
Discovered == parser.pc \in {"extract", "return", "done"}

\* C18: container discovery is first-match-wins over the ordered container
\* selectors: the result elements are exactly the matches of the first
\* selector with at least one match, and the diagnostic names that selector,
\* whatever the later selectors match; if no selector matches, the parser
\* returns an empty list and the search does not fail.
C18_FirstContainerSelectorWins ==
    Discovered =>
        IF Matching = {}
        THEN /\ parser.result_elements = <<>>
             /\ parser.results = <<>>
             /\ parser.selector = ""
             /\ parser.status \in {"", "ok"}
        ELSE LET k == CHOOSE m \in Matching : \A q \in Matching : m <= q
             IN  /\ parser.result_elements = parser.html[k]
                 /\ parser.selector = result_selectors(parser.engine)[k]

\* the primary selector matches nothing, the secondary matches three elements,
\* a third one matches too: the three are extracted and returned
C18_Witness ==
    /\ Parsed
    /\ parser.html[1] = <<>>
    /\ Len(parser.html[2]) = 3
    /\ parser.html[3] # <<>>
    /\ parser.result_elements = parser.html[2]
    /\ parser.num_results = 20
    /\ Len(parser.results) = 3

\* no container selector matches: empty list, status ok
C18_WitnessNoMatch ==
    Parsed /\ Matching = {} /\ parser.results = <<>> /\ parser.status = "ok"

\* the positions of the examined elements a result is extracted from
Kept == {i \in 1..Len(Examined) : Extractable(parser.engine, Examined[i])}

\* the j-th of them in page order
NthKept(j) == CHOOSE i \in Kept : Cardinality({q \in Kept : q < i}) = j - 1

\* C19: an extraction failure on one element skips that element only: every
\* element among the first max_results is examined, the results are those of
\* the valid ones in their original order, and the search ends with status ok.
C19_FailureSkipsOneElement ==
    Parsed =>
        /\ parser.i = Min(Min(parser.num_results, 20), Len(parser.result_elements))
        /\ Len(parser.results) = Cardinality(Kept)
        /\ \A j \in 1..Len(parser.results) :
               <<parser.results[j]>> =
                   extract_result(parser.engine, Examined[NthKept(j)])
        /\ parser.status = "ok"

\* the extraction of the second of three elements fails; the first and the
\* third, different from each other, are returned in this order
C19_Witness ==
    /\ Parsed
    /\ Len(Examined) = 3
    /\ Examined[2].raises
    /\ Kept = {1, 3}
    /\ Len(parser.results) = 2
    /\ parser.results[1] # parser.results[2]
    /\ parser.status = "ok"

\* C20: the readiness detector returns before max_wait once the ready signal
\* reports complete (it waits the settle period after the first poll that
\* observes 'complete', inside the budget, and returns success), and if no
\* poll observes 'complete' within the budget it returns a timeout condition
\* to its caller, that is a value that differs from the one it returns on
\* success, without raising.
C20_ReadinessReturn ==
    \A o \in Fetches :
        /\ op[o].pc = "settle" => op[o].polls < MaxPolls
        /\ (op[o].waited # "pending" /\ ~op[o].timedOut)
               => op[o].waited = ReturnWhenComplete
        /\ op[o].pc = "wait_timeout"
               => /\ op[o].timedOut
                  /\ op[o].fails = <<>> \/ op[o].attempt > Len(op[o].fails)
                  /\ op[o].waited # ReturnWhenComplete

\* the step is a readiness poll of task o in which reading the signal raised
PollError(o) ==
    /\ op[o].pc = "poll"
    /\ running = o
    /\ faults' = faults + 1

\* C21: an error while reading the ready signal during polling is treated as
\* 'not yet ready': the poll that raised does not end the readiness detector,
\* adds no failure to the fetch, and is followed by the sleep of the poll
\* interval and the next turn of the loop, until the signal reads complete or
\* the budget is over.
C21_PollErrorIsNotYetReady ==
    [][\A o \in Fetches :
          PollError(o) =>
              /\ op'[o].pc = "poll_sleep"
              /\ op'[o].polls = op[o].polls + 1
              /\ op'[o].fails = op[o].fails
              /\ op'[o].waited = "pending"
              /\ op'[o].status = ""]_vars

\* a fetch whose first poll raised and whose second poll read 'complete'
C21_Witness ==
    \E o \in Fetches :
        /\ op[o].pollErrs = 1
        /\ op[o].polls = 1
        /\ op[o].pc = "read_url"
        /\ op[o].waited = ReturnWhenComplete
        /\ ~op[o].timedOut

RECURSIVE Sum(_)
Sum(seq) == IF seq = <<>> THEN 0 ELSE Head(seq) + Sum(Tail(seq))

\* C22: the fetch retry policy sleeps between attempts only (one delay before
\* each attempt after the first, so at most 2 delays for 3 attempts and none
\* after the last attempt), the i-th delay is 1 s times 2^(i-1), never above
\* the cap of 10 s, and the delays of one fetch add up to less than 15 s.
C22_BackoffBetweenAttempts ==
    \A o \in Fetches :
        /\ Len(op[o].delays) <= 2
        /\ op[o].attempt >= 1 => Len(op[o].delays) = op[o].attempt - 1
        /\ \A i \in 1..Len(op[o].delays) :
               /\ op[o].delays[i] = Min(2 ^ (i - 1), 10)
               /\ op[o].delays[i] <= 10
        /\ Sum(op[o].delays) < 15

\* a fetch that failed three times: two delays, then the error output
C22_Witness ==
    \E o \in Fetches :
        /\ op[o].pc = "done"
        /\ Len(op[o].fails) = 3
        /\ op[o].delays = <<1, 2>>
        /\ op[o].status = "error"

\* the tool calls that have returned their output
Returned == {o \in Ops : op[o].pc = "done"}

\* C23: in every output fetch_url and web_search return, on every path,
\* status and error agree: status is 'ok' or 'error', and error is non-null
\* if and only if status is 'error'.
C23_StatusAndErrorAgree ==
    \A o \in Returned :
        /\ op[o].status \in {"ok", "error"}
        /\ op[o].error # NoError <=> op[o].status = "error"

\* a fetch returned the error output of a failed attempt
C23_Witness ==
    \E o \in Returned \cap Fetches :
        /\ op[o].fails # <<>>
        /\ op[o].status = "error"
        /\ op[o].error # NoError

\* the positions at which the next thing a task does is a driver command
\* (get, execute_script, current_url, title, page_source, find_elements)
AtDriverCommand(o) ==
    op[o].pc \in {"navigate", "poll", "read_url", "read_title", "read_html",
                  "s_navigate", "s_wait", "s_read"}

\* the positions at which a task is suspended in an await, or has ended
Suspended(o) ==
    op[o].pc \in {"idle", "get_driver", "poll_sleep", "settle", "backoff",
                  "s_get_driver", "s_settle", "done", "raised"}

\* C24: at most one driver command is in flight at any instant: a task is at
\* a driver command only while it holds the event loop, and the event loop
\* passes from a task to another only when the task is suspended in an await
\* (get_driver, a poll sleep, a settle sleep, a retry back-off) or has ended,
\* never in the middle of a driver command.
C24_OneCommandInFlight ==
    /\ [](\A o \in Ops : AtDriverCommand(o) => running = o)
    /\ [][\A o \in Ops : (running = o /\ running' # o) => Suspended(o)']_vars

\* a task is about to navigate while the other one sleeps between its own
\* navigate and its read-back
C24_Witness ==
    \E o, q \in Ops :
        /\ o # q
        /\ running = o
        /\ op[o].pc \in {"navigate", "s_navigate"}
        /\ op[q].pc \in {"poll_sleep", "settle", "s_settle"}

\* C25: navigation commands per tool call are bounded: one fetch_url call
\* issues at most 3 navigate commands and acquires the driver with get_driver
\* anew before each of them, and one web_search call issues at most 1
\* navigate command.
C25_NavigationsBounded ==
    /\ \A o \in Fetches :
           /\ op[o].navs <= 3
           /\ op[o].navs <= op[o].gdCalls
           /\ op[o].gdCalls <= op[o].attempt
           /\ op[o].pc \in {"navigate", "poll"} => op[o].gdCalls = op[o].navs +
                  (IF op[o].pc = "navigate" THEN 1 ELSE 0)
    /\ \A o \in Searches : op[o].navs <= 1

\* a fetch that navigated three times, after three get_driver calls
C25_Witness ==
    \E o \in Fetches :
        /\ op[o].navs = 3
        /\ op[o].gdCalls = 3
        /\ op[o].pc = "done"

\* the number of container matches the cap lets through
Cap == Min(Min(parser.num_results, 20), Len(parser.result_elements))

\* C26: the result cap applies to the examined elements, not to the kept
\* results: the parser examines the first max_results container matches only,
\* in document order, so the returned list is an order-preserving subsequence
\* of (the results of) those first max_results elements, and a valid element
\* at a later position is not returned even when earlier ones were discarded.
C26_CapOnExaminedElements ==
    Parsed =>
        /\ parser.i = Cap
        /\ \E f \in [1..Len(parser.results) -> 1..Cap] :
               /\ \A j, k \in 1..Len(parser.results) : j < k => f[j] < f[k]
               /\ \A j \in 1..Len(parser.results) :
                      <<parser.results[j]>> =
                          extract_result(parser.engine,
                                         parser.result_elements[f[j]])

\* three container matches, two requested: the first is discarded, the second
\* is returned, the third is valid and is not returned
C26_Witness ==
    /\ Parsed
    /\ Len(parser.result_elements) = 3
    /\ parser.num_results = 2
    /\ ~Extractable(parser.engine, parser.result_elements[1])
    /\ Extractable(parser.engine, parser.result_elements[2])
    /\ Extractable(parser.engine, parser.result_elements[3])
    /\ parser.result_elements[2] # parser.result_elements[3]
    /\ Len(parser.results) = 1

\* C27: the readiness detector always terminates: whatever the ready-signal
\* values and the polling errors, and given that the clock advances,
\* _wait_for_page_load returns, after a number of polls that the budget
\* bounds (max_wait over the poll interval, MaxPolls in the model, the poll
\* that reads 'complete' apart); it never loops forever.
C27_ReadinessDetectorTerminates ==
    /\ [](\A o \in Fetches : op[o].polls <= MaxPolls)
    /\ \A o \in Ops : (op[o].pc = "poll") ~> (op[o].waited # "pending")

\* the detector returned after its whole budget, a poll of which raised
C27_Witness ==
    \E o \in Fetches :
        /\ op[o].waited = ReturnAfterBudget
        /\ op[o].timedOut
        /\ op[o].polls = MaxPolls
        /\ op[o].pollErrs >= 1

\* C28: a fetch result with status 'error' never carries partial page
\* content: on every error path title is the empty string, html is the empty
\* string, and final_url is the requested URL (the trimmed input or its
\* normalized form), not a URL read back from the driver.
C28_ErrorCarriesNoContent ==
    \A o \in Returned \cap Fetches :
        op[o].status = "error" =>
            /\ op[o].title = ""
            /\ op[o].html = ""
            /\ op[o].final_url \in {op[o].url, normalize_url(op[o].url)}

\* the page was loaded, reading current_url failed on the last attempt: the
\* error output names the normalized requested URL
C28_Witness ==
    \E o \in Returned \cap Fetches :
        /\ op[o].status = "error"
        /\ op[o].url = "HTTP://B/"
        /\ "current_url" \in op[o].readFail
        /\ op[o].final_url = normalize_url(op[o].url)

Converts == {o \in Ops : op[o].kind = "convert"}

\* C29: in every output of the convert_to_markdown tool, conversion_success is
\* true if and only if status is 'ok', and whenever status is 'error' the
\* markdown field is empty and error is set; an invalid content_type or a URL
\* the validator rejects (content_type url or pdf_url) returns such an error
\* without the convert operation of the conversion engine being invoked.
C29_ConvertOutputsAgree ==
    \A o \in Returned \cap Converts :
        /\ op[o].status \in {"ok", "error"}
        /\ op[o].conversion_success <=> op[o].status = "ok"
        /\ op[o].status = "error" =>
               op[o].markdown = "" /\ op[o].error # NoError
        /\ (\/ op[o].content_type \notin {"url", "html", "pdf_url"}
            \/ /\ op[o].content_type \in {"url", "pdf_url"}
               /\ ~validate_url_security(op[o].content))
               => op[o].status = "error" /\ op[o].convertCalls = 0

\* a rejected URL and a failed conversion, both returned as errors
C29_Witness ==
    \E o, q \in Returned \cap Converts :
        /\ op[o].content_type = "pdf_url"
        /\ ~validate_url_security(op[o].content)
        /\ op[o].status = "error"
        /\ op[q].convertCalls = 1
        /\ op[q].status = "error"

\* a selector of the link chain the claim gives the engine matches, in the
\* element, a node with a non-empty href
LinkFound(engine, element) ==
    \E i \in 1..(IF engine = "google_scholar" THEN 2
                 ELSE Len(title_selectors(engine))) :
        element.title[i].found /\ element.title[i].href # ""

\* C30: for Google Scholar the link chain is the first two selectors of the
\* four-selector title chain only: an element is returned only if 'h3.gs_rt a'
\* or '.gs_rt a' matches a node with a non-empty href, so an element whose
\* title is found by the third or fourth title selector alone is discarded;
\* for the other five engines the link chain is the whole title chain.
C30_ScholarLinkChainFirstTwo ==
    Parsed =>
        /\ Len(title_selectors("google_scholar")) = 4
        /\ Len(parser.results) =
               Cardinality({j \in 1..Len(Examined) :
                               /\ ~Examined[j].raises
                               /\ extract_title(parser.engine, Examined[j]) # ""
                               /\ LinkFound(parser.engine, Examined[j])})

\* a Google Scholar element whose title and href are found by the third or
\* fourth title selector only: it is discarded
C30_Witness ==
    /\ Parsed
    /\ parser.engine = "google_scholar"
    /\ Len(Examined) = 1
    /\ ~Examined[1].raises
    /\ ~Examined[1].title[1].found /\ ~Examined[1].title[2].found
    /\ Examined[1].title[3].found \/ Examined[1].title[4].found
    /\ extract_title(parser.engine, Examined[1]) # ""
    /\ parser.results = <<>>

\* the same element on a page of another engine is returned
C30_WitnessOtherEngine ==
    /\ Parsed
    /\ parser.engine = "pubmed"
    /\ Len(Examined) = 1
    /\ ~Examined[1].title[1].found /\ ~Examined[1].title[2].found
    /\ Examined[1].title[3].found
    /\ Len(parser.results) = 1

====
